---- MODULE Spec2Model ----
(***************************************************************************)
(* restate-worker: Handler wraps a Restate Endpoint and adapts it to the   *)
(* Cloudflare Workers runtime (src/src/lib.rs).                            *)
(*                                                                         *)
(* The model covers Handler::new, Handler::handle and the lazy body that   *)
(* handle returns: the Endpoint's response body is a sequence of frames,   *)
(* into_data_stream turns it into a stream of data chunks, and             *)
(* Body::from_stream wraps that stream for the host, whose consumer then   *)
(* pulls it chunk by chunk.  The Endpoint and the host runtime are the     *)
(* environment: what the Endpoint answers and whether the host's body      *)
(* constructor accepts the stream are chosen nondeterministically.         *)
(***************************************************************************)
EXTENDS Integers, Sequences, FiniteSets

\* Number of Handler::handle invocations on the one Handler.
MaxCalls == 2
\* Number of frames all the Endpoint's response bodies hold together.
MaxFrames == 2

VARIABLES
    handler,    \* the Handler value, or NoHandler before Handler::new
    newArgs,    \* the Endpoints that were passed to Handler::new, in order
    calls       \* per invocation of handle: its request, trace, result, body

vars == <<handler, newArgs, calls>>

CallIds == 1..MaxCalls

----------------------------------------------------------------------------
(* Values of the environment *)

\* An Endpoint is the set of services bound to it; Endpoint::builder().build()
\* binds none.
Services == {"echo"}
Endpoints == SUBSET Services
DefaultEndpoint == {}

NoHandler == [none |-> TRUE]

\* ProtocolMode of the SDK.
ProtocolModes == {"RequestResponse", "BidiStream"}

\* A request: the mode its headers ask for, and its body.
Requests == [wants : ProtocolModes, body : {<<"p", "i", "n", "g">>}]

\* Response parts (status and headers) the Endpoint may choose: a successful
\* dispatch and a failed one.
PartsSet ==
    { [status |-> 200, headers |-> {<<"content-type", "application/restate">>}],
      [status |-> 500, headers |-> {}] }

\* Frames of the Endpoint's response body.  The adapter never looks into a
\* payload, so the data frame at place j of the body answering invocation i
\* carries the two bytes <<i, j>>: a lost, repeated, moved or misrouted chunk
\* shows in the bytes.
FrameKinds == {"data", "trailers", "error"}
FrameOf(kind, i, j) ==
    [kind |-> kind, bytes |-> IF kind = "data" THEN <<i, j>> ELSE <<>>]

\* Bodies of at most n frames for invocation i.  A body's error, if any, is
\* its last frame: the stream is dropped once it has yielded an error.
BodiesUpTo(n, i) ==
    { [j \in 1..Len(ks) |-> FrameOf(ks[j], i, j)] :
        ks \in { s \in UNION {[1..k -> FrameKinds] : k \in 0..n} :
                    \A j \in 1..Len(s) : s[j] = "error" => j = Len(s) } }

NoRequest == [wants |-> "none", body |-> <<>>]
NoOptions == [protocol_mode |-> "none"]
NoParts == [status |-> 0, headers |-> {}]
NoResponse == [parts |-> NoParts, body |-> <<>>]
NoStream == [src |-> <<>>, pos |-> 0]

----------------------------------------------------------------------------
(* Handler::new *)

\* Mutant: new validates the Endpoint and refuses one with no service bound.
HandlerNewValidating(endpoint) ==
    IF endpoint = DefaultEndpoint THEN NoHandler ELSE [endpoint |-> endpoint]

\* pub fn new(endpoint: Endpoint) -> Self { Self { endpoint } }
HandlerNew(endpoint) == [endpoint |-> endpoint]

----------------------------------------------------------------------------
(* Handler::handle *)

\* Mutant: the mode is taken from what the request asks for.
HandleOptionsFromRequest(req) == [protocol_mode |-> req.wants]

\* HandleOptions { protocol_mode: ProtocolMode::RequestResponse }
HandleOptions(req) == [protocol_mode |-> "RequestResponse"]

\* One step of handle that is not a call to the Endpoint.
Op(name) == [op |-> name, req |-> NoRequest, options |-> NoOptions]

\* self.endpoint.handle_with_options(req, HandleOptions { .. })
EndpointCall(req) ==
    [op |-> "handle_with_options", req |-> req, options |-> HandleOptions(req)]

\* Mutant: when Body::from_stream fails, handle asks the Endpoint again.
HandleTraceRetrying(req, accept) ==
    LET once == << EndpointCall(req), Op("into_parts"), Op("into_data_stream"),
                   Op("from_stream") >>
    IN  IF accept THEN once ELSE once \o once

\* The steps of one invocation of handle, in program order.  accept is the
\* outcome of Body::from_stream; the `?` returns at once when it is an Err.
HandleTrace(req, accept) ==
    << EndpointCall(req), Op("into_parts"), Op("into_data_stream"),
       Op("from_stream") >>

\* Mutant: handle rebuilds its Endpoint.
HandlerAfterHandleReset(h) == [endpoint |-> DefaultEndpoint]

\* handle takes &self: the Handler after an invocation.
HandlerAfterHandle(h) == h

\* let (parts, body) = response.into_parts();
IntoParts(response) == [parts |-> response.parts, body |-> response.body]

\* Payloads of the data frames among frames, in order.
Payloads(frames) ==
    LET d == SelectSeq(frames, LAMBDA f : f.kind = "data")
    IN  [k \in 1..Len(d) |-> d[k].bytes]

\* Mutant: only the body's first frame is read (body.frame()).
IntoDataStreamFirstFrame(body) ==
    [src |-> SubSeq(body, 1, IF Len(body) = 0 THEN 0 ELSE 1), pos |-> 0]

\* body.into_data_stream(): a stream over the body's frames, none polled yet.
IntoDataStream(body) == [src |-> body, pos |-> 0]

\* One poll of the data stream: frames are taken from the source in order
\* until one is a data frame (yielded), an error (yielded), or the source has
\* ended; a frame that is not data is dropped and the next one is taken.
\* read lists the source positions this poll took.
RECURSIVE PollFrom(_, _)
PollFrom(stream, read) ==
    IF stream.pos >= Len(stream.src)
    THEN [item |-> "end", bytes |-> <<>>, stream |-> stream, read |-> read]
    ELSE LET at == stream.pos + 1
             f == stream.src[at]
             next == [stream EXCEPT !.pos = at]
         IN  CASE f.kind = "data" ->
                    [item |-> "data", bytes |-> f.bytes, stream |-> next,
                     read |-> Append(read, at)]
               [] f.kind = "error" ->
                    [item |-> "error", bytes |-> <<>>, stream |-> next,
                     read |-> Append(read, at)]
               [] OTHER -> PollFrom(next, Append(read, at))

\* Mutant: a frame that is not data ends the stream.
PollNextStoppingAtNonData(stream) ==
    IF stream.pos >= Len(stream.src)
    THEN [item |-> "end", bytes |-> <<>>, stream |-> stream, read |-> <<>>]
    ELSE LET at == stream.pos + 1
             f == stream.src[at]
             next == [stream EXCEPT !.pos = at]
         IN  CASE f.kind = "data" ->
                    [item |-> "data", bytes |-> f.bytes, stream |-> next,
                     read |-> <<at>>]
               [] f.kind = "error" ->
                    [item |-> "error", bytes |-> <<>>, stream |-> next,
                     read |-> <<at>>]
               [] OTHER ->
                    [item |-> "end", bytes |-> <<>>, stream |-> next,
                     read |-> <<at>>]

PollNext(stream) == PollFrom(stream, <<>>)

\* Mutant: the whole body is collected before handle returns.
BodyFromStreamBuffered(stream, accept) ==
    IF accept
    THEN [kind |-> "ok", stream |-> [stream EXCEPT !.pos = Len(stream.src)],
          held |-> Payloads(stream.src)]
    ELSE [kind |-> "err", stream |-> NoStream, held |-> <<>>]

\* Body::from_stream(stream): the host's body constructor.  It either rejects
\* the stream or wraps it as it is: polling it is left to the body's consumer.
BodyFromStream(stream, accept) ==
    IF accept
    THEN [kind |-> "ok", stream |-> stream, held |-> <<>>]
    ELSE [kind |-> "err", stream |-> NoStream, held |-> <<>>]

\* Mutant: the response is built afresh around the body (Response::new).
FromPartsFresh(parts, body) ==
    [kind |-> "ok", parts |-> [status |-> 200, headers |-> {}],
     stream |-> body.stream, held |-> body.held]

\* Response::from_parts(parts, body)
FromParts(parts, body) ==
    [kind |-> "ok", parts |-> parts, stream |-> body.stream, held |-> body.held]

\* Mutant: a rejected body is replaced by an empty one (unwrap_or_else).
HandleReturnEmptyOnError(parts, conv) ==
    IF conv.kind = "err"
    THEN [kind |-> "ok", parts |-> parts, stream |-> NoStream, held |-> <<>>]
    ELSE [kind |-> "ok", parts |-> parts, stream |-> conv.stream,
          held |-> conv.held]

\* Mutant: a response whose status reports a failure becomes an Err.
HandleReturnCheckingStatus(parts, conv) ==
    IF conv.kind = "err" \/ parts.status >= 500
    THEN [kind |-> "err", parts |-> NoParts, stream |-> NoStream, held |-> <<>>]
    ELSE [kind |-> "ok", parts |-> parts, stream |-> conv.stream,
          held |-> conv.held]

\* let body = Body::from_stream(..)?;  Ok(Response::from_parts(parts, body))
HandleReturn(parts, conv) ==
    IF conv.kind = "err"
    THEN [kind |-> "err", parts |-> NoParts, stream |-> NoStream, held |-> <<>>]
    ELSE FromParts(parts, conv)

\* The chunk as the host's consumer receives it: the bytes copied one by one
\* into a fresh byte array.
HostChunk(bytes) == [k \in 1..Len(bytes) |-> bytes[k]]

\* The record of one invocation of handle: the caller's request, what the
\* Endpoint answered, and what handle returned.
Invoke(req, response, accept) ==
    LET p == IntoParts(response)
        conv == BodyFromStream(IntoDataStream(p.body), accept)
        ret == HandleReturn(p.parts, conv)
    IN  [ pc |-> IF ret.kind = "ok" THEN "open" ELSE "err",
          req |-> req,
          trace |-> HandleTrace(req, accept),
          epResp |-> response,
          accept |-> accept,
          kind |-> ret.kind,
          parts |-> ret.parts,
          stream |-> ret.stream,
          atReturn |-> ret.stream.pos,
          held |-> ret.held,
          taken |-> <<>>,
          out |-> <<>> ]

IdleCall ==
    [ pc |-> "idle", req |-> NoRequest, trace |-> <<>>, epResp |-> NoResponse,
      accept |-> FALSE, kind |-> "none", parts |-> NoParts, stream |-> NoStream,
      atReturn |-> 0, held |-> <<>>, taken |-> <<>>, out |-> <<>> ]

----------------------------------------------------------------------------
(* The state machine *)

RECURSIVE FramesIn(_, _)
FramesIn(c, n) == IF n = 0 THEN 0 ELSE Len(c[n].epResp.body) + FramesIn(c, n - 1)

\* Frames the Endpoint has put into its response bodies so far.
FramesUsed == FramesIn(calls, MaxCalls)

Init ==
    /\ handler = NoHandler
    /\ newArgs = <<>>
    /\ calls = [i \in CallIds |-> IdleCall]

\* Handler::new(endpoint)
New(endpoint) ==
    /\ newArgs = <<>>
    /\ handler' = HandlerNew(endpoint)
    /\ newArgs' = <<endpoint>>
    /\ UNCHANGED calls

\* handler.handle(req): the Endpoint answers with any response, the host's
\* body constructor accepts the stream or not.  Invocations take the ids in
\* order.
Handle(i) ==
    /\ handler # NoHandler
    /\ calls[i].pc = "idle"
    /\ \A j \in 1..(i - 1) : calls[j].pc # "idle"
    /\ \E req \in Requests, parts \in PartsSet, accept \in BOOLEAN :
       \E body \in BodiesUpTo(MaxFrames - FramesUsed, i) :
          calls' = [calls EXCEPT
                      ![i] = Invoke(req, [parts |-> parts, body |-> body], accept)]
    /\ handler' = HandlerAfterHandle(handler)
    /\ UNCHANGED newArgs

\* The consumer of a returned body asks for the next chunk: the body polls
\* its stream once.
Pull(i) ==
    /\ calls[i].pc = "open"
    /\ calls[i].held = <<>>
    /\ LET r == PollNext(calls[i].stream)
           c == [calls[i] EXCEPT !.stream = r.stream, !.taken = @ \o r.read]
       IN  calls' = [calls EXCEPT ![i] =
                CASE r.item = "data" -> [c EXCEPT !.held = <<r.bytes>>]
                  [] r.item = "error" -> [c EXCEPT !.pc = "errored"]
                  [] OTHER -> [c EXCEPT !.pc = "closed"]]
    /\ UNCHANGED <<handler, newArgs>>

\* The body hands the chunk it holds to its consumer.
Deliver(i) ==
    /\ calls[i].pc = "open"
    /\ calls[i].held # <<>>
    /\ calls' = [calls EXCEPT ![i].out = Append(@, HostChunk(Head(calls[i].held))),
                              ![i].held = Tail(@)]
    /\ UNCHANGED <<handler, newArgs>>

Next ==
    \/ \E e \in Endpoints : New(e)
    \/ \E i \in CallIds : Handle(i)
    \/ \E i \in CallIds : Pull(i)
    \/ \E i \in CallIds : Deliver(i)

Spec == Init /\ [][Next]_vars

----------------------------------------------------------------------------
(* Properties *)

Invoked(i) == calls[i].pc # "idle"
Returned(i) == calls[i].kind = "ok"

\* The calls invocation i made to the Endpoint, in order.
EndpointCalls(i) ==
    SelectSeq(calls[i].trace, LAMBDA e : e.op = "handle_with_options")

\* Where in the trace of invocation i the steps named op are.
StepsOf(i, op) == {k \in DOMAIN calls[i].trace : calls[i].trace[k].op = op}

IsPrefix(s, t) == Len(s) <= Len(t) /\ SubSeq(t, 1, Len(s)) = s

RECURSIVE Flatten(_)
Flatten(chunks) ==
    IF chunks = <<>> THEN <<>> ELSE Head(chunks) \o Flatten(Tail(chunks))

AllData(frames) == \A j \in DOMAIN frames : frames[j].kind = "data"

\* The frames of the Endpoint's body that the returned body has taken so far.
TakenFrames(i) == SubSeq(calls[i].epResp.body, 1, calls[i].stream.pos)

\* C1: every call handle makes to the Endpoint passes protocol_mode =
\* RequestResponse, whatever mode the request asks for.
C1_ModeIsRequestResponse ==
    \A i \in CallIds : \A k \in DOMAIN calls[i].trace :
        calls[i].trace[k].op = "handle_with_options"
            => calls[i].trace[k].options.protocol_mode = "RequestResponse"

\* A request asking for the streaming mode has been forwarded to the Endpoint.
C1_Witness ==
    \E i \in CallIds :
        /\ calls[i].req.wants = "BidiStream"
        /\ Len(EndpointCalls(i)) = 1

\* C2: a response returned by handle has exactly the status and headers the
\* Endpoint produced for that request.
C2_PartsPreserved ==
    \A i \in CallIds : Returned(i) => calls[i].parts = calls[i].epResp.parts

\* handle returned a response for which the Endpoint chose status 500 and
\* another for which it chose status 200 with a header.
C2_Witness ==
    /\ \E i \in CallIds : Returned(i) /\ calls[i].epResp.parts.status = 500
    /\ \E i \in CallIds :
          Returned(i) /\ calls[i].epResp.parts.status = 200
                      /\ calls[i].epResp.parts.headers # {}

\* C3: for a body of data frames only, the consumer reads the chunks the
\* Endpoint emitted, in order, none lost or repeated: always a prefix of
\* them, all of them once the body has ended, and the body ends only when
\* the source has, never with an error.
C3_BodyIdentical ==
    \A i \in CallIds :
        (Returned(i) /\ AllData(calls[i].epResp.body)) =>
            LET src == Payloads(calls[i].epResp.body) IN
            /\ IsPrefix(calls[i].out, src)
            /\ calls[i].pc # "errored"
            /\ calls[i].pc = "closed" =>
                  /\ calls[i].out = src
                  /\ Flatten(calls[i].out) = Flatten(src)
                  /\ calls[i].stream.pos = Len(calls[i].epResp.body)

\* A body of two data frames has been read to its end.
C3_Witness ==
    \E i \in CallIds :
        /\ calls[i].pc = "closed"
        /\ AllData(calls[i].epResp.body)
        /\ Len(calls[i].epResp.body) = 2
        /\ Len(calls[i].out) = 2

\* C4: Handler::new accepts every Endpoint, the default one included, and
\* the Handler it yields holds that Endpoint and can be invoked.
C4_NewHoldsEndpoint ==
    /\ newArgs = <<>> => \A e \in Endpoints : ENABLED New(e)
    /\ (newArgs # <<>> /\ \A i \in CallIds : ~Invoked(i)) =>
          /\ handler = [endpoint |-> newArgs[1]]
          /\ ENABLED Handle(1)

\* A Handler has been built from the default Endpoint.
C4_Witness ==
    /\ newArgs = <<DefaultEndpoint>>
    /\ handler = [endpoint |-> DefaultEndpoint]
    /\ \A i \in CallIds : ~Invoked(i)

\* C5: when the host's body constructor rejects the stream, handle returns
\* an Err: no response, and no body for a consumer to read.
C5_RejectedBodyIsErr ==
    \A i \in CallIds :
        (Invoked(i) /\ ~calls[i].accept) =>
            /\ calls[i].kind = "err"
            /\ calls[i].pc = "err"
            /\ calls[i].out = <<>>

\* The constructor rejected a body that holds a data frame and an error.
C5_Witness ==
    \E i \in CallIds :
        /\ Invoked(i) /\ ~calls[i].accept
        /\ \E j \in DOMAIN calls[i].epResp.body :
              calls[i].epResp.body[j].kind = "error"
        /\ \E j \in DOMAIN calls[i].epResp.body :
              calls[i].epResp.body[j].kind = "data"

\* C6: once built, the Handler is its Endpoint and nothing else, and no step
\* changes it.
C6_HandlerUnchanged ==
    [][handler # NoHandler =>
          /\ handler' = handler
          /\ handler' = [endpoint |-> newArgs'[1]]
          /\ DOMAIN handler' = {"endpoint"}]_vars

\* After a failed invocation and a successful one whose body is being read,
\* the Handler still holds the Endpoint it was built from.
C6_Witness ==
    /\ handler = [endpoint |-> Services]
    /\ newArgs = <<Services>>
    /\ \E i, j \in CallIds :
          /\ calls[i].pc = "err"
          /\ calls[j].pc = "open" /\ calls[j].out # <<>>

\* C7: handle returns an Err exactly when the host's body constructor
\* fails; a response by which the Endpoint reports a failure is returned as
\* it is.
C7_ErrIffConstructorFails ==
    \A i \in CallIds :
        Invoked(i) =>
            /\ calls[i].kind = "err" <=> ~calls[i].accept
            /\ (calls[i].accept /\ calls[i].epResp.parts.status = 500) =>
                  /\ calls[i].kind = "ok"
                  /\ calls[i].parts.status = 500
                  /\ calls[i].parts.headers = calls[i].epResp.parts.headers

\* The Endpoint reported a failure and handle returned its response.
C7_Witness ==
    \E i \in CallIds :
        /\ calls[i].epResp.parts.status = 500
        /\ calls[i].accept
        /\ calls[i].kind = "ok"

\* C8: an invocation calls the Endpoint once, with the caller's request, as
\* its first step and before the body conversion; a failed conversion is
\* followed by no further call.
C8_OneEndpointCall ==
    \A i \in CallIds :
        Invoked(i) =>
            /\ Len(EndpointCalls(i)) = 1
            /\ EndpointCalls(i)[1].req = calls[i].req
            /\ calls[i].trace[1].op = "handle_with_options"
            /\ \A c \in StepsOf(i, "handle_with_options") :
               \A f \in StepsOf(i, "into_data_stream") \cup StepsOf(i, "from_stream") :
                  c < f
            /\ StepsOf(i, "from_stream") # {}
            /\ calls[i].trace[Len(calls[i].trace)].op = "from_stream"

\* An invocation whose conversion failed has called the Endpoint once.
C8_Witness ==
    \E i \in CallIds :
        /\ calls[i].kind = "err"
        /\ Len(EndpointCalls(i)) = 1
        /\ calls[i].req.body # <<>>

\* C9: handle returns with no frame taken from the Endpoint's body; the
\* body then holds at most one chunk, takes the frames in order and each
\* once, and has handed every chunk it took before to the consumer.
C9_SinglePass ==
    \A i \in CallIds :
        Returned(i) =>
            /\ calls[i].atReturn = 0
            /\ Len(calls[i].held) <= 1
            /\ calls[i].taken = [k \in 1..calls[i].stream.pos |-> k]
            /\ Len(Payloads(TakenFrames(i))) = Len(calls[i].out) + Len(calls[i].held)

\* The second chunk is held while the first is with the consumer.
C9_Witness ==
    \E i \in CallIds :
        /\ calls[i].pc = "open"
        /\ Len(calls[i].out) = 1
        /\ Len(calls[i].held) = 1
        /\ calls[i].stream.pos = 2

\* C10: the returned body carries the payloads of the data frames and of no
\* other frame, in order; a frame that is not data is skipped, ends the body
\* no earlier than the source and fails nothing.
C10_OnlyDataFrames ==
    \A i \in CallIds :
        Returned(i) =>
            /\ calls[i].out \o calls[i].held = Payloads(TakenFrames(i))
            /\ calls[i].pc = "closed" =>
                  /\ calls[i].stream.pos = Len(calls[i].epResp.body)
                  /\ calls[i].out = Payloads(calls[i].epResp.body)
            /\ calls[i].pc = "errored" =>
                  calls[i].epResp.body[calls[i].stream.pos].kind = "error"

\* A body that starts with a trailers frame has been read to its end and
\* gave the data frame behind it.
C10_Witness ==
    \E i \in CallIds :
        /\ calls[i].pc = "closed"
        /\ Len(calls[i].epResp.body) = 2
        /\ calls[i].epResp.body[1].kind = "trailers"
        /\ calls[i].epResp.body[2].kind = "data"
        /\ calls[i].out = <<calls[i].epResp.body[2].bytes>>

====
